---------------------------- MODULE Spec2Model ----------------------------
(***************************************************************************)
(* Secure archive extraction and bounded document discovery                *)
(* (src/src/utils/archive_handler.py) together with the request handler    *)
(* that owns the temporary workspace (process_archive_files in             *)
(* src/src/ui/server.py).                                                  *)
(*                                                                         *)
(* A file name is a sequence of one-character strings, a path a sequence   *)
(* of names from the filesystem root.  The filesystem is the pair          *)
(* (files, dirs).  No symbolic link is ever created (extract_tar skips     *)
(* them, zipfile writes them as plain files), so Path.resolve() is the     *)
(* lexical removal of ".." components.  The bytes of an accepted member    *)
(* land where the operating system resolves extract_to / member: the       *)
(* libraries' own name sanitising is not relied upon.  Archives are        *)
(* well-formed in the sense that the library can write every accepted      *)
(* member (no member name collides with a directory of another member).    *)
(***************************************************************************)
EXTENDS Integers, Sequences, FiniteSets, TLC

MaxLen == 2
MaxPath == 3

MAX_ARCHIVE_SIZE_MB == 50
MAX_FILES_IN_ARCHIVE == 100
MAX_EXTRACTION_DEPTH == 1
MAX_FILE_SIZE_MB == 10
MB == 1024 * 1024

EXT_ZIP == <<".", "z", "i", "p">>
EXT_TAR == <<".", "t", "a", "r">>
EXT_TAR_GZ == <<".", "t", "a", "r", ".", "g", "z">>
EXT_TGZ == <<".", "t", "g", "z">>
EXT_PDF == <<".", "p", "d", "f">>
EXT_TXT == <<".", "t", "x", "t">>
EXT_DOCX == <<".", "d", "o", "c", "x">>

SUPPORTED_ARCHIVE_EXTENSIONS == {EXT_ZIP, EXT_TAR, EXT_TAR_GZ, EXT_TGZ}
SUPPORTED_DOCUMENT_EXTENSIONS == {EXT_PDF, EXT_TXT, EXT_DOCX}

---------------------------------------------------------------------------
(* str and pathlib *)

LowerChar(c) ==
    CASE c = "Z" -> "z"
      [] c = "I" -> "i"
      [] c = "P" -> "p"
      [] c = "T" -> "t"
      [] c = "G" -> "g"
      [] c = "A" -> "a"
      [] c = "R" -> "r"
      [] c = "U" -> "u"
      [] OTHER -> c

Lower(s) == [i \in 1..Len(s) |-> LowerChar(s[i])]

EndsWith(s, suf) ==
    /\ Len(s) >= Len(suf)
    /\ SubSeq(s, Len(s) - Len(suf) + 1, Len(s)) = suf

StartsWith(s, pre) ==
    /\ Len(s) >= Len(pre)
    /\ SubSeq(s, 1, Len(pre)) = pre

\* str.rfind("."), 1-based; 0 when there is no dot
RFindDot(s) ==
    LET dots == {i \in 1..Len(s) : s[i] = "."}
    IN  IF dots = {} THEN 0 ELSE CHOOSE i \in dots : \A j \in dots : j <= i

\* PurePath.suffix and PurePath.stem of a final component
Suffix(name) ==
    LET i == RFindDot(name)
    IN  IF 1 < i /\ i < Len(name) THEN SubSeq(name, i, Len(name)) ELSE <<>>

Stem(name) ==
    LET i == RFindDot(name)
    IN  IF 1 < i /\ i < Len(name) THEN SubSeq(name, 1, i - 1) ELSE name

DotDot == <<".", ".">>

RECURSIVE Norm(_, _)
Norm(p, acc) ==
    IF p = <<>> THEN acc
    ELSE IF Head(p) = DotDot
         THEN Norm(Tail(p), IF acc = <<>> THEN <<>> ELSE SubSeq(acc, 1, Len(acc) - 1))
         ELSE Norm(Tail(p), Append(acc, Head(p)))

\* Path.resolve(): the canonical absolute form
Resolve(p) == Norm(p, <<>>)

\* extract_to / member: an absolute member name replaces the base
Join(base, m) == IF m.abs THEN m.name ELSE base \o m.name

\* PurePath.relative_to succeeds: base is target or an ancestor of it
IsRelativeTo(target, base) == StartsWith(target, base)

---------------------------------------------------------------------------
(* archive_handler.py: the checks *)

IsArchiveFile_SuffixOnly(filename) ==
    Lower(Suffix(filename)) \in SUPPORTED_ARCHIVE_EXTENSIONS

\* is_archive_file: the .tar.gz test on the lowered name, then Path.suffix
IsArchiveFile(filename) ==
    \/ EndsWith(Lower(filename), EXT_TAR_GZ)
    \/ Lower(Suffix(filename)) \in SUPPORTED_ARCHIVE_EXTENSIONS

ArchiveSizeOk_WholeMB(size) == ~((size \div MB) > MAX_ARCHIVE_SIZE_MB)

\* validate_archive_safety passes: st_size / (1024 * 1024) > limit raises
ArchiveSizeOk(size) == ~(size > MAX_ARCHIVE_SIZE_MB * MB)

ExtractedPathOk_Unchecked(extract_to, target_path) == TRUE

\* validate_extracted_path passes
ExtractedPathOk(extract_to, target_path) ==
    IsRelativeTo(Resolve(target_path), Resolve(extract_to))

TooManyFiles_AtLimit(n) == n >= MAX_FILES_IN_ARCHIVE

\* len(namelist()) > MAX_FILES_IN_ARCHIVE, len(getmembers()) > MAX_FILES_IN_ARCHIVE
TooManyFiles(n) == n > MAX_FILES_IN_ARCHIVE

FileTooLarge_WholeMB(size) == (size \div MB) > MAX_FILE_SIZE_MB
FileTooLarge_AtLimit(size) == size >= MAX_FILE_SIZE_MB * MB

\* file_size / (1024 * 1024) > MAX_FILE_SIZE_MB
FileTooLarge(size) == size > MAX_FILE_SIZE_MB * MB

\* extract_archive's dispatch on archive_path.name.lower()
Extractor(name) ==
    LET filename == Lower(name)
    IN  IF EndsWith(filename, EXT_ZIP) THEN "zip"
        ELSE IF \/ EndsWith(filename, EXT_TAR)
                \/ EndsWith(filename, EXT_TAR_GZ)
                \/ EndsWith(filename, EXT_TGZ) THEN "tar"
        ELSE "none"

\* extract_tar's mode, from the name as given (no lower())
TarMode(name) ==
    IF EndsWith(name, EXT_TAR_GZ) \/ EndsWith(name, EXT_TGZ) THEN "r:gz" ELSE "r"

Opens_Lenient(extractor, name, fmt) == TRUE

\* The library opens the bytes: zipfile.ZipFile needs a ZIP; tarfile.open
\* with "r:gz" needs a gzip-compressed TAR, with "r" it detects the
\* compression itself and takes both.
Opens(extractor, name, fmt) ==
    IF extractor = "zip" THEN fmt = "zip"
    ELSE IF TarMode(name) = "r:gz" THEN fmt = "gz"
    ELSE fmt \in {"tar", "gz"}

SkippedEntry_DirsOnly(extractor, m) == m.kind = "dir"

\* The loop's first test: member.endswith("/") in extract_zip (a directory
\* entry), not member.isfile() in extract_tar
SkippedEntry(extractor, m) ==
    IF extractor = "zip" THEN m.kind = "dir" ELSE m.kind # "file"

\* nested_extract_dir = item.parent / f"_extracted_{item.stem}"
EXTRACTED_PREFIX == <<"_", "e", "x", "t", "r", "a", "c", "t", "e", "d", "_">>
NestedExtractDir(parent, name) == Append(parent, EXTRACTED_PREFIX \o Stem(name))

---------------------------------------------------------------------------
(* Archives: a format and a member list.  A member has a name (a relative  *)
(* path, or an absolute one), an entry kind, a declared size and, when it  *)
(* is itself an archive, that archive.                                     *)

NoData == [fmt |-> "none", members |-> <<>>]
Arch(fmt, members) == [fmt |-> fmt, members |-> members]
Entry(name, abs, kind, size, data) ==
    [name |-> name, abs |-> abs, kind |-> kind, size |-> size, data |-> data]

N(stem, ext) == <<stem>> \o ext

Inner3 == Arch("zip", <<Entry(<<N("z", EXT_TXT)>>, FALSE, "file", 1024, NoData)>>)
NestedOk ==
    Arch("zip", <<Entry(<<N("p", EXT_TXT)>>, FALSE, "file", 1024, NoData),
                  Entry(<<N("k", EXT_ZIP)>>, FALSE, "file", 2048, Inner3)>>)
NestedBad ==
    Arch("tar", <<Entry(<<N("q", EXT_TXT)>>, FALSE, "file", 1024, NoData),
                  Entry(<<DotDot, N("e", EXT_TXT)>>, FALSE, "file", 1024, NoData)>>)

mDoc == Entry(<<N("a", EXT_TXT)>>, FALSE, "file", 1024, NoData)
mMax == Entry(<<N("c", EXT_DOCX)>>, FALSE, "file", MAX_FILE_SIZE_MB * MB, NoData)
mBig == Entry(<<N("b", EXT_PDF)>>, FALSE, "file", MAX_FILE_SIZE_MB * MB + 1, NoData)
mEsc == Entry(<<DotDot, N("e", EXT_TXT)>>, FALSE, "file", 1024, NoData)
mAbs == Entry(<<N("e", EXT_TXT)>>, TRUE, "file", 1024, NoData)
mDir == Entry(<<<<"d">>>>, FALSE, "dir", 0, NoData)
mEscDir == Entry(<<DotDot, <<"d">>>>, FALSE, "dir", 0, NoData)
mSub == Entry(<<<<"d">>, N("a", EXT_TXT)>>, FALSE, "file", 1024, NoData)
mLink == Entry(<<<<"l">>>>, FALSE, "link", 0, NoData)
mInside == Entry(<<<<"d">>, DotDot, N("g", EXT_TXT)>>, FALSE, "file", 1024, NoData)
mEscBig ==
    Entry(<<DotDot, N("b", EXT_PDF)>>, FALSE, "file", MAX_FILE_SIZE_MB * MB + 1, NoData)
mNest == Entry(<<N("n", EXT_ZIP)>>, FALSE, "file", 4096, NestedOk)
mNestBad == Entry(<<N("m", EXT_TAR)>>, FALSE, "file", 4096, NestedBad)

\* a second nested archive with the stem of n.zip
NestedTwin == Arch("tar", <<Entry(<<N("r", EXT_TXT)>>, FALSE, "file", 1024, NoData)>>)
mTwin == Entry(<<N("n", EXT_TAR)>>, FALSE, "file", 4096, NestedTwin)

\* a nested archive in a sub-directory, its document in a sub-directory
NestedDeep ==
    Arch("zip", <<Entry(<<<<"d">>, N("s", EXT_TXT)>>, FALSE, "file", 1024, NoData)>>)
mSubNest == Entry(<<<<"d">>, N("h", EXT_ZIP)>>, FALSE, "file", 4096, NestedDeep)

\* a nested archive with the stem of m.tar, the archive that fails
NestedTwinBad == Arch("zip", <<Entry(<<N("t", EXT_TXT)>>, FALSE, "file", 1024, NoData)>>)
mTwinBad == Entry(<<N("m", EXT_ZIP)>>, FALSE, "file", 4096, NestedTwinBad)

\* a document in a directory of the archive whose name begins as the
\* extraction directories of nested archives do
mUnderPrefix ==
    Entry(<<EXTRACTED_PREFIX \o <<"x">>, N("a", EXT_TXT)>>, FALSE, "file", 1024, NoData)

\* a regular file where the extraction directory of n.zip would go
mClash == Entry(<<EXTRACTED_PREFIX \o <<"n">>>>, FALSE, "file", 1024, NoData)

\* a ZIP has directory entries and file entries; the entry kinds that are
\* neither exist in a TAR.  A compressed TAR goes through extract_tar as a
\* plain one does once it is open, so fewer of the members are tried in it.
Pool(fmt) ==
    IF fmt = "gz"
    THEN {mDoc, mBig, mEsc, mDir, mLink, mSub, mNest}
    ELSE {mDoc, mMax, mBig, mEsc, mAbs, mEscBig, mDir, mEscDir, mSub, mInside,
          mNest, mClash, mTwin, mSubNest}
         \cup (IF fmt = "zip" THEN {} ELSE {mLink})
PadPool == {mDoc, mBig, mDir}

Lists(S) == UNION {[1..n -> S] : n \in 0..MaxLen}

\* further entries, all the same small regular file (ZIP and TAR both
\* allow a name to repeat), to bring the member count to the limit
Pad == [i \in 1..(MAX_FILES_IN_ARCHIVE - 1) |-> mDoc]

UploadName(fmt) ==
    CASE fmt = "zip" -> N("u", EXT_ZIP)
      [] fmt = "tar" -> N("u", EXT_TAR)
      [] fmt = "gz" -> N("u", EXT_TGZ)

Upload(name, size, data) == [name |-> name, size |-> size, data |-> data]

\* file names as a caller of extract_archive may give them: each suffix in
\* lower, upper and mixed case, with and without a stem, and other names
UploadNames ==
    {N("u", EXT_ZIP), N("u", EXT_TAR), N("u", EXT_TGZ), N("u", EXT_TAR_GZ),
     N("u", <<".", "b", "i", "n">>), N("u", <<".", "g", "z">>),
     N("U", <<".", "Z", "I", "P">>), N("u", <<".", "T", "a", "r">>),
     N("u", <<".", "T", "G", "Z">>), N("u", <<".", "T", "A", "R", ".", "G", "Z">>),
     N("u", <<".", "z", "i", "p", ".", "b", "i", "n">>),
     EXT_ZIP, EXT_TAR, EXT_TGZ, EXT_TAR_GZ, <<".", "Z", "i", "p">>,
     <<"z", "i", "p">>, <<"t", "a", "r", ".", "g", "z">>}

\* member lists tried beside the lists drawn from the pool
MoreLists ==
    {<<mNestBad>>, <<mDoc, mNestBad>>, <<mNestBad, mDoc>>, <<mNestBad, mNest>>,
     <<mNestBad, mTwinBad>>, <<mDoc, mUnderPrefix>>}

Uploads ==
    {Upload(UploadName(fmt), MB, Arch(fmt, ms)) :
        fmt \in {"zip", "tar"}, ms \in MoreLists}
    \cup
    UNION {{Upload(UploadName(fmt), MB, Arch(fmt, ms)) : ms \in Lists(Pool(fmt))} :
              fmt \in {"zip", "tar", "gz"}}
    \cup {Upload(UploadName(fmt), 2 * MB, Arch(fmt, ms \o Pad)) :
        fmt \in {"zip", "tar"}, ms \in Lists(PadPool)}
    \cup {Upload(name, size, data) :
        name \in UploadNames,
        size \in {MAX_ARCHIVE_SIZE_MB * MB, MAX_ARCHIVE_SIZE_MB * MB + 1},
        data \in {Arch("zip", <<mDoc>>), Arch("tar", <<mDoc>>), NoData}}

NoUpload == Upload(<<>>, 0, NoData)

---------------------------------------------------------------------------
(* State *)

VARIABLES
    files,      \* the regular files on disk: canonical path -> [size, data]
    dirs,       \* the directories on disk
    pc,         \* each request's position in process_archive_files
    upload,     \* each request's archive_path: name, st_size, bytes
    stack,      \* each request's calls of extract_archive / find_supported_files
    exc,        \* the exception each request is raising
    temp_dir,   \* process_archive_files' local temp_dir (<<>> is None)
    supported,  \* process_archive_files' local supported_files
    textIdx,    \* position of the text-extraction loop
    combined,   \* combined_text: the files whose text was extracted
    rmtrees,    \* shutil.rmtree calls made for the request, by call site
    writes,     \* history: every member written, where and from which level
    denied,     \* history: the paths at which a PermissionError was raised
    probe,      \* a direct call of validate_extracted_path and its outcome
    result_files,   \* RESULTS_FOLDER: the *.json result files, by name
    metadata_file,  \* RESULTS_FOLDER / "_metadata.json"
    meta,       \* each request's position in /analyze or /api/results
    now,        \* the last time read from the clock
    added,      \* history: the entries given to add_result_metadata, in call order
    conversations,  \* the chat history of each session
    chat        \* the /chat request being handled

\* the state of the results folder, of the requests that use it and of the
\* chat sessions (ui/server.py)
serverVars == <<result_files, metadata_file, meta, now, added, conversations,
                chat>>

\* the state of the archive handler
archiveVars == <<files, dirs, pc, upload, stack, exc, temp_dir, supported,
                 textIdx, combined, rmtrees, writes, denied, probe>>

vars == <<files, dirs, pc, upload, stack, exc, temp_dir, supported, textIdx,
          combined, rmtrees, writes, denied, probe, serverVars>>

Reqs == {1, 2}

TMP == <<"t", "m", "p">>
\* tempfile.mkdtemp(prefix="archive_extract_"): a fresh name per call
TempDir(r) == <<TMP, <<"w", IF r = 1 THEN "1" ELSE "2">>>>

None == <<>>
NoExc == [kind |-> "none", why |-> "none"]
Exc(kind, why) == [kind |-> kind, why |-> why]

Frame(fn, stage, arch, dir, depth, idx, todo, acc) ==
    [fn |-> fn, stage |-> stage, arch |-> arch, dir |-> dir, depth |-> depth,
     idx |-> idx, todo |-> todo, acc |-> acc]

ExtractFrame_Unvalidated(arch, extract_to, level) ==
    Frame("extract", "open", arch, extract_to, level, 0, {}, <<>>)

\* extract_archive(archive_path, extract_to) is entered
ExtractFrame(arch, extract_to, level) ==
    Frame("extract", "validate", arch, extract_to, level, 0, {}, <<>>)

\* find_supported_files(directory, depth) is entered
FindFrame(directory, depth) ==
    Frame("find", "enter", NoUpload, directory, depth, 0, {}, <<>>)

Top(r) == stack[r][Len(stack[r])]
Below(r) == SubSeq(stack[r], 1, Len(stack[r]) - 1)
Running(r, fn, stage) ==
    /\ pc[r] = "pa_run"
    /\ stack[r] # <<>>
    /\ Top(r).fn = fn
    /\ Top(r).stage = stage

\* no direct call of validate_extracted_path is being made
NoProbe == [extract_to |-> <<>>, target_path |-> <<>>, result |-> "none"]

(* the filesystem *)
Ancestors(p) == {SubSeq(p, 1, k) : k \in 1..(Len(p) - 1)}
Under(root, p) == StartsWith(p, root)
IsFile(p) == p \in DOMAIN files
IsDir(p) == p \in dirs
Exists(p) == IsFile(p) \/ IsDir(p)
\* directory.iterdir(): the names of the entries of a directory
Children(d) ==
    {p[Len(d) + 1] : p \in {q \in DOMAIN files \cup dirs :
                                Len(q) = Len(d) + 1 /\ StartsWith(q, d)}}
FilesWith(p, rec) ==
    [q \in DOMAIN files \cup {p} |-> IF q = p THEN rec ELSE files[q]]
\* shutil.rmtree(root, ignore_errors=True)
FilesWithout(root) == [q \in {x \in DOMAIN files : ~Under(root, x)} |-> files[q]]
DirsWithout(root) == {d \in dirs : ~Under(root, d)}

---------------------------------------------------------------------------
(* The results folder and the chat sessions (ui/server.py) *)

\* the clock is read in ticks; a file name carries the time to the second
MaxClock == 2
\* the analyses one client has saved
MaxAnalyses == 2
\* the listings one client asks for
MaxLists == 1
\* the messages a chat session is let grow to
MaxHistory == 21

\* strftime('%Y%m%d_%H%M%S') cuts the time read to the second, isoformat()
\* keeps the ticks
TicksPerSecond == 2

\* RESULTS_FOLDER / "_metadata.json"
METADATA_FILE == [stem |-> "_metadata", sec |-> 0]

\* f"analysis_{datetime.now().strftime('%Y%m%d_%H%M%S')}.json"
ResultFilename(t) == [stem |-> "analysis", sec |-> t \div TicksPerSecond]

\* the time of the analysis saved before the first step
OldTimes == {0 - TicksPerSecond}
ResultNames == {ResultFilename(t) : t \in OldTimes \cup 0..MaxClock}

\* the "" that rebuild_metadata puts for a missing timestamp: it sorts
\* before every isoformat() string
EmptyTimestamp == 0 - 2 * TicksPerSecond

Titles == {"idea"}

\* what a result file holds: nothing (no such file), bytes json.load
\* refuses, or the object /analyze dumps; keys are the keys it has
AbsentFile == [kind |-> "absent", keys |-> {}, title |-> "", timestamp |-> 0]
UnparseableFile ==
    [kind |-> "unparseable", keys |-> {}, title |-> "", timestamp |-> 0]
ResultFile(title, timestamp) ==
    [kind |-> "json", keys |-> {"title", "timestamp", "result"},
     title |-> title, timestamp |-> timestamp]
\* a result file of an object without title and timestamp
BareResultFile ==
    [kind |-> "json", keys |-> {"result"}, title |-> "", timestamp |-> 0]

\* what _metadata.json holds: nothing, bytes json.load refuses (a file
\* opened for writing and not yet written is one), or a list of entries
AbsentCache == [kind |-> "absent", entries |-> <<>>]
UnparseableCache == [kind |-> "unparseable", entries |-> <<>>]
CacheOf(metadata) == [kind |-> "json", entries |-> metadata]

\* {"filename": ..., "title": ..., "timestamp": ...}
MetaEntry(filename, title, timestamp) ==
    [filename |-> filename, title |-> title, timestamp |-> timestamp]

\* RESULTS_FOLDER.glob("*.json")
GlobJson ==
    {n \in ResultNames : result_files[n].kind # "absent"}
    \cup (IF metadata_file.kind # "absent" THEN {METADATA_FILE} ELSE {})

\* the permutations of a set: glob yields the names in no fixed order
Orders(S) ==
    {s \in [1..Cardinality(S) -> S] :
        \A i, j \in 1..Cardinality(S) : i # j => s[i] # s[j]}

ScannedEntry_Unchecked(name) ==
    LET data == result_files[name]
    IN  <<MetaEntry(name,
                    IF "title" \in data.keys THEN data.title ELSE "Untitled",
                    IF "timestamp" \in data.keys THEN data.timestamp
                    ELSE EmptyTimestamp)>>

\* one pass of rebuild_metadata's loop: the entry of a file json.load takes,
\* with data.get's defaults; nothing for a file it refuses
ScannedEntry(name) ==
    LET data == result_files[name]
    IN  IF data.kind # "json" THEN <<>>
        ELSE <<MetaEntry(name,
                         IF "title" \in data.keys THEN data.title ELSE "Untitled",
                         IF "timestamp" \in data.keys THEN data.timestamp
                         ELSE EmptyTimestamp)>>

RECURSIVE ScannedEntries(_)
\* rebuild_metadata's loop over the names in the order glob gave them
ScannedEntries(order) ==
    IF order = <<>> THEN <<>>
    ELSE ScannedEntry(Head(order)) \o ScannedEntries(Tail(order))

\* metadata.sort(key=lambda x: x.get("timestamp") or "", reverse=True),
\* a stable sort: e goes after the entries that are not older
InsertNewestFirst(sorted, e) ==
    LET k == Cardinality({i \in DOMAIN sorted : sorted[i].timestamp >= e.timestamp})
    IN  SubSeq(sorted, 1, k) \o <<e>> \o SubSeq(sorted, k + 1, Len(sorted))

RECURSIVE SortNewestFirst(_)
SortNewestFirst(metadata) ==
    IF metadata = <<>> THEN <<>>
    ELSE InsertNewestFirst(SortNewestFirst(SubSeq(metadata, 1, Len(metadata) - 1)),
                           metadata[Len(metadata)])

\* a request that is in neither /analyze nor /api/results
NoRequest(left, lists) ==
    [op |-> "none", pc |-> "idle", filename |-> ResultFilename(0), title |-> "",
     timestamp |-> 0, metadata |-> <<>>, found |-> "none", ret |-> "none",
     left |-> left, lists |-> lists, response |-> <<>>]

\* the chat sessions and the words of a /chat request
Sessions == {"s1"}
Messages == {"", "hi"}
ChatMessage(role, content) == [role |-> role, content |-> content]
NoChat == [pc |-> "idle", session_id |-> "", message |-> "", status |-> 0]

\* if len(conversation) > 20: conversation = conversation[-20:]
MAX_CONVERSATION == 20

\* no request to the server is in progress and its folder is empty
ServerIdle ==
    /\ result_files = [n \in ResultNames |-> AbsentFile]
    /\ metadata_file = AbsentCache
    /\ meta = [r \in Reqs |-> NoRequest(0, 0)]
    /\ now = 0
    /\ added = <<>>
    /\ conversations = [s \in {} |-> <<>>]
    /\ chat = NoChat

\* no archive is being processed
ArchiveIdle ==
    /\ files = [q \in {} |-> NoUpload]
    /\ dirs = {<<TMP>>}
    /\ upload = [r \in Reqs |-> NoUpload]
    /\ pc = [r \in Reqs |-> "idle"]
    /\ stack = [r \in Reqs |-> <<>>]
    /\ exc = [r \in Reqs |-> NoExc]
    /\ temp_dir = [r \in Reqs |-> None]
    /\ supported = [r \in Reqs |-> <<>>]
    /\ textIdx = [r \in Reqs |-> 0]
    /\ combined = [r \in Reqs |-> <<>>]
    /\ rmtrees = [r \in Reqs |-> [pa |-> 0, paf |-> 0]]
    /\ writes = {}
    /\ denied = {}
    /\ probe = NoProbe

Init ==
    /\ files = [q \in {} |-> NoUpload]
    /\ dirs = {<<TMP>>}
    /\ upload \in {[r \in Reqs |-> IF r = 1 THEN u ELSE NoUpload] : u \in Uploads}
    /\ pc = [r \in Reqs |-> IF r = 1 THEN "paf_start" ELSE "idle"]
    /\ stack = [r \in Reqs |-> <<>>]
    /\ exc = [r \in Reqs |-> NoExc]
    /\ temp_dir = [r \in Reqs |-> None]
    /\ supported = [r \in Reqs |-> <<>>]
    /\ textIdx = [r \in Reqs |-> 0]
    /\ combined = [r \in Reqs |-> <<>>]
    /\ rmtrees = [r \in Reqs |-> [pa |-> 0, paf |-> 0]]
    /\ writes = {}
    /\ denied = {}
    /\ probe = NoProbe
    /\ ServerIdle

\* a member named into the temporary directory of the other request
mCross(r) ==
    Entry(<<DotDot, TempDir(3 - r)[2], N("a", EXT_TXT)>>, FALSE, "file", 1024, NoData)

\* two uploads being processed at the same time (server.py runs one
\* process_archive_files per request, each on its own saved file)
ConcUploads(r) ==
    {Upload(N("u", EXT_ZIP), MB, Arch("zip", <<mSub, mNest>>)),
     Upload(N("u", EXT_TAR), MB, Arch("tar", <<mDoc, mCross(r)>>)),
     Upload(N("u", EXT_TGZ), MB, Arch("gz", <<mCross(r), mDoc>>)),
     Upload(N("u", EXT_ZIP), MB, Arch("zip", <<mMax>>))}

InitConc ==
    /\ files = [q \in {} |-> NoUpload]
    /\ dirs = {<<TMP>>}
    /\ upload \in {[r \in Reqs |-> IF r = 1 THEN u1 ELSE u2] :
                       u1 \in ConcUploads(1), u2 \in ConcUploads(2)}
    /\ pc = [r \in Reqs |-> "paf_start"]
    /\ stack = [r \in Reqs |-> <<>>]
    /\ exc = [r \in Reqs |-> NoExc]
    /\ temp_dir = [r \in Reqs |-> None]
    /\ supported = [r \in Reqs |-> <<>>]
    /\ textIdx = [r \in Reqs |-> 0]
    /\ combined = [r \in Reqs |-> <<>>]
    /\ rmtrees = [r \in Reqs |-> [pa |-> 0, paf |-> 0]]
    /\ writes = {}
    /\ denied = {}
    /\ probe = NoProbe
    /\ ServerIdle

\* path components for a direct call of validate_extracted_path
PathParts == {TMP, TempDir(1)[2], <<"a">>, DotDot}
PathNames == UNION {[1..n -> PathParts] : n \in 0..MaxPath}

\* validate_extracted_path(extract_to, target_path) called on its own, with
\* target_path = extract_to / name for a relative or an absolute name
InitValidate ==
    /\ files = [q \in {} |-> NoUpload]
    /\ dirs = {<<TMP>>, TempDir(1)}
    /\ upload = [r \in Reqs |-> NoUpload]
    /\ pc = [r \in Reqs |-> "idle"]
    /\ stack = [r \in Reqs |-> <<>>]
    /\ exc = [r \in Reqs |-> NoExc]
    /\ temp_dir = [r \in Reqs |-> None]
    /\ supported = [r \in Reqs |-> <<>>]
    /\ textIdx = [r \in Reqs |-> 0]
    /\ combined = [r \in Reqs |-> <<>>]
    /\ rmtrees = [r \in Reqs |-> [pa |-> 0, paf |-> 0]]
    /\ writes = {}
    /\ denied = {}
    /\ \E extract_to \in {TempDir(1), TempDir(1) \o <<<<"a">>, DotDot>>},
          name \in PathNames, abs \in BOOLEAN :
            probe = [extract_to |-> extract_to,
                     target_path |-> Join(extract_to, [name |-> name, abs |-> abs]),
                     result |-> "called"]
    /\ ServerIdle

---------------------------------------------------------------------------
(* process_archive, extract_archive, extract_zip, extract_tar *)

SetTop(r, f) == [stack EXCEPT ![r] = Append(Below(r), f)]

RaiseIn(r, kind, why) ==
    /\ stack' = SetTop(r, [Top(r) EXCEPT !.stage = "raised"])
    /\ exc' = [exc EXCEPT ![r] = Exc(kind, why)]

\* process_archive: mkdtemp, then extract_archive(archive_path, temp_dir)
MkTemp(r) ==
    /\ pc[r] = "paf_start"
    /\ dirs' = dirs \cup {TempDir(r)}
    /\ stack' = [stack EXCEPT ![r] = <<ExtractFrame(upload[r], TempDir(r), 0)>>]
    /\ pc' = [pc EXCEPT ![r] = "pa_run"]
    /\ UNCHANGED <<files, upload, exc, temp_dir, supported, textIdx, combined,
                   rmtrees, writes, denied, probe, serverVars>>

\* extract_archive: validate_archive_safety(archive_path)
ValidateArchiveSafety(r) ==
    /\ Running(r, "extract", "validate")
    /\ IF ArchiveSizeOk(Top(r).arch.size)
       THEN /\ stack' = SetTop(r, [Top(r) EXCEPT !.stage = "dispatch"])
            /\ exc' = exc
       ELSE RaiseIn(r, "SecurityValidationError", "archive_size")
    /\ UNCHANGED <<files, dirs, pc, upload, temp_dir, supported, textIdx,
                   combined, rmtrees, writes, denied, probe, serverVars>>

\* extract_archive: the choice of the extractor from the file name
Dispatch(r) ==
    /\ Running(r, "extract", "dispatch")
    /\ IF Extractor(Top(r).arch.name) = "none"
       THEN RaiseIn(r, "ArchiveExtractionError", "unsupported")
       ELSE /\ stack' = SetTop(r, [Top(r) EXCEPT !.stage = "open"])
            /\ exc' = exc
    /\ UNCHANGED <<files, dirs, pc, upload, temp_dir, supported, textIdx,
                   combined, rmtrees, writes, denied, probe, serverVars>>

\* extract_zip / extract_tar: open the archive, read the member list and
\* compare its length with the limit
OpenArchive(r) ==
    /\ Running(r, "extract", "open")
    /\ LET a == Top(r).arch
       IN  IF ~Opens(Extractor(a.name), a.name, a.data.fmt)
           THEN RaiseIn(r, "ArchiveExtractionError", "corrupted")
           ELSE IF TooManyFiles(Len(a.data.members))
           THEN RaiseIn(r, "SecurityValidationError", "too_many_files")
           ELSE /\ stack' = SetTop(r, [Top(r) EXCEPT !.stage = "loop", !.idx = 1])
                /\ exc' = exc
    /\ UNCHANGED <<files, dirs, pc, upload, temp_dir, supported, textIdx,
                   combined, rmtrees, writes, denied, probe, serverVars>>

ExtractMember_SizeFirst(r) ==
    /\ Running(r, "extract", "loop")
    /\ Top(r).idx <= Len(Top(r).arch.data.members)
    /\ LET f == Top(r)
           m == f.arch.data.members[f.idx]
           target_path == Join(f.dir, m)
           next == [f EXCEPT !.idx = f.idx + 1]
       IN  IF SkippedEntry(Extractor(f.arch.name), m)
           THEN /\ stack' = SetTop(r, next)
                /\ UNCHANGED <<files, dirs, exc, writes>>
           ELSE IF FileTooLarge(m.size)
           THEN /\ stack' = SetTop(r, next)
                /\ UNCHANGED <<files, dirs, exc, writes>>
           ELSE IF ~ExtractedPathOk(f.dir, target_path)
           THEN /\ RaiseIn(r, "SecurityValidationError", "path_traversal")
                /\ UNCHANGED <<files, dirs, writes>>
           ELSE /\ files' = FilesWith(Resolve(target_path),
                                      [size |-> m.size, data |-> m.data])
                /\ dirs' = dirs \cup Ancestors(Resolve(target_path))
                /\ stack' = SetTop(r, [next EXCEPT !.acc = Append(f.acc, target_path)])
                /\ writes' = writes \cup
                       {[req |-> r, root |-> f.dir, path |-> Resolve(target_path),
                         size |-> m.size, level |-> f.depth, idx |-> f.idx,
                         arch |-> f.arch.name, kind |-> m.kind]}
                /\ exc' = exc
    /\ UNCHANGED <<pc, upload, temp_dir, supported, textIdx, combined, rmtrees, denied, probe, serverVars>>

\* one iteration of the extractor's loop over the member list
ExtractMember(r) ==
    /\ Running(r, "extract", "loop")
    /\ Top(r).idx <= Len(Top(r).arch.data.members)
    /\ LET f == Top(r)
           m == f.arch.data.members[f.idx]
           target_path == Join(f.dir, m)
           next == [f EXCEPT !.idx = f.idx + 1]
       IN  IF SkippedEntry(Extractor(f.arch.name), m)
           THEN /\ stack' = SetTop(r, next)
                /\ UNCHANGED <<files, dirs, exc, writes>>
           ELSE IF ~ExtractedPathOk(f.dir, target_path)
           THEN /\ RaiseIn(r, "SecurityValidationError", "path_traversal")
                /\ UNCHANGED <<files, dirs, writes>>
           ELSE IF FileTooLarge(m.size)
           THEN /\ stack' = SetTop(r, next)
                /\ UNCHANGED <<files, dirs, exc, writes>>
           ELSE /\ files' = FilesWith(Resolve(target_path),
                                      [size |-> m.size, data |-> m.data])
                /\ dirs' = dirs \cup Ancestors(Resolve(target_path))
                /\ stack' = SetTop(r, [next EXCEPT !.acc = Append(f.acc, target_path)])
                /\ writes' = writes \cup
                       {[req |-> r, root |-> f.dir, path |-> Resolve(target_path),
                         size |-> m.size, level |-> f.depth, idx |-> f.idx,
                         arch |-> f.arch.name, kind |-> m.kind]}
                /\ exc' = exc
    /\ UNCHANGED <<pc, upload, temp_dir, supported, textIdx, combined, rmtrees, denied, probe, serverVars>>

\* the loop is over: return extracted_files
ExtractLoopEnd(r) ==
    /\ Running(r, "extract", "loop")
    /\ Top(r).idx > Len(Top(r).arch.data.members)
    /\ stack' = SetTop(r, [Top(r) EXCEPT !.stage = "returned"])
    /\ UNCHANGED <<files, dirs, pc, upload, exc, temp_dir, supported, textIdx,
                   combined, rmtrees, writes, denied, probe, serverVars>>

\* extract_archive has returned to process_archive (line 319) or to
\* find_supported_files (line 281): the caller goes on to scan the
\* directory it extracted into
ExtractReturn(r) ==
    /\ Running(r, "extract", "returned")
    /\ stack' = SetTop(r, FindFrame(Top(r).dir, Top(r).depth))
    /\ UNCHANGED <<files, dirs, pc, upload, exc, temp_dir, supported, textIdx,
                   combined, rmtrees, writes, denied, probe, serverVars>>

CaughtInFind_ExtractionOnly == {"ArchiveExtractionError"}

\* except (ArchiveExtractionError, SecurityValidationError), line 285
CaughtInFind == {"ArchiveExtractionError", "SecurityValidationError"}

\* an exception leaves the function that raised it: find_supported_files'
\* except clause (line 285) takes the extractors' two kinds, anything else
\* goes up; out of the outermost call it reaches process_archive's except
Unwind(r) ==
    /\ pc[r] = "pa_run"
    /\ stack[r] # <<>>
    /\ Top(r).stage = "raised"
    /\ IF Len(stack[r]) > 1
       THEN /\ IF exc[r].kind \in CaughtInFind
               THEN /\ stack' = [stack EXCEPT ![r] = Below(r)]
                    /\ exc' = [exc EXCEPT ![r] = NoExc]
               ELSE /\ stack' = [stack EXCEPT ![r] =
                           Append(SubSeq(Below(r), 1, Len(Below(r)) - 1),
                                  [Below(r)[Len(Below(r))] EXCEPT !.stage = "raised"])]
                    /\ exc' = exc
            /\ pc' = pc
       ELSE /\ stack' = [stack EXCEPT ![r] = <<>>]
            /\ pc' = [pc EXCEPT ![r] = "pa_except"]
            /\ exc' = exc
    /\ UNCHANGED <<files, dirs, upload, temp_dir, supported, textIdx, combined,
                   rmtrees, writes, denied, probe, serverVars>>

\* shutil.rmtree(temp_dir, ignore_errors=True)
Rmtree(root) ==
    /\ files' = FilesWithout(root)
    /\ dirs' = DirsWithout(root)

PaExcept_NoCleanup(r) ==
    /\ pc[r] = "pa_except"
    /\ pc' = [pc EXCEPT ![r] = "paf_finally"]
    /\ UNCHANGED <<files, dirs, upload, stack, exc, temp_dir, supported, textIdx,
                   combined, rmtrees, writes, denied, probe, serverVars>>

\* process_archive's except Exception: remove the directory and re-raise
PaExcept(r) ==
    /\ pc[r] = "pa_except"
    /\ Rmtree(TempDir(r))
    /\ rmtrees' = [rmtrees EXCEPT ![r].pa = @ + 1]
    /\ pc' = [pc EXCEPT ![r] = "paf_finally"]
    /\ UNCHANGED <<upload, stack, exc, temp_dir, supported, textIdx, combined, writes, denied, probe, serverVars>>

---------------------------------------------------------------------------
(* find_supported_files *)

FindEnter_NoHandler(r) ==
    /\ Running(r, "find", "enter")
    /\ IF Top(r).depth > MAX_EXTRACTION_DEPTH
       THEN /\ stack' = SetTop(r, [Top(r) EXCEPT !.stage = "return"])
            /\ denied' = denied
       ELSE \/ /\ stack' = SetTop(r, [Top(r) EXCEPT !.stage = "iter",
                                                     !.todo = Children(Top(r).dir)])
               /\ denied' = denied
            \/ /\ stack' = SetTop(r, [Top(r) EXCEPT !.stage = "raised"])
               /\ denied' = denied \cup {Top(r).dir}
    /\ exc' = IF Top(r)'.stage = "raised"
              THEN [exc EXCEPT ![r] = Exc("PermissionError", "iterdir")] ELSE exc
    /\ UNCHANGED <<files, dirs, pc, upload, temp_dir, supported, textIdx,
                   combined, rmtrees, writes, probe, serverVars>>

\* the depth test, then directory.iterdir(): the listing is taken once, and
\* a PermissionError from it ends the call with what was collected: nothing
FindEnter(r) ==
    /\ Running(r, "find", "enter")
    /\ IF Top(r).depth > MAX_EXTRACTION_DEPTH
       THEN /\ stack' = SetTop(r, [Top(r) EXCEPT !.stage = "return"])
            /\ denied' = denied
       ELSE \/ /\ stack' = SetTop(r, [Top(r) EXCEPT !.stage = "iter",
                                                     !.todo = Children(Top(r).dir)])
               /\ denied' = denied
            \/ /\ stack' = SetTop(r, [Top(r) EXCEPT !.stage = "return"])
               /\ denied' = denied \cup {Top(r).dir}
    /\ UNCHANGED <<files, dirs, pc, upload, exc, temp_dir, supported, textIdx,
                   combined, rmtrees, writes, probe, serverVars>>

NestedWanted_OneDeeper(depth, name) ==
    depth <= MAX_EXTRACTION_DEPTH /\ IsArchiveFile(name)

\* the nested-archive test of line 275
NestedWanted(depth, name) == depth < MAX_EXTRACTION_DEPTH /\ IsArchiveFile(name)

SubdirDepth_Deeper(depth) == depth + 1

\* the depth given to the call for a sub-directory (line 289): the same
SubdirDepth(depth) == depth

\* the sub-directory test of line 287
DirWanted(name) == ~StartsWith(name, EXTRACTED_PREFIX)

\* one iteration of the loop over the listing, in the order the operating
\* system gives
FindItem(r) ==
    /\ Running(r, "find", "iter")
    /\ \E name \in Top(r).todo :
        LET f == [Top(r) EXCEPT !.todo = @ \ {name}]
            item == Append(f.dir, name)
            nested_extract_dir == NestedExtractDir(f.dir, name)
        IN  IF IsFile(item)
            THEN IF Lower(Suffix(name)) \in SUPPORTED_DOCUMENT_EXTENSIONS
                 THEN /\ stack' = SetTop(r, [f EXCEPT !.acc = Append(@, item)])
                      /\ UNCHANGED <<dirs, exc, denied>>
                 ELSE IF NestedWanted(f.depth, name)
                 THEN IF IsFile(nested_extract_dir)
                      \* mkdir(exist_ok=True) on a path that is a regular file
                      THEN /\ stack' = SetTop(r, [f EXCEPT !.stage = "raised"])
                           /\ exc' = [exc EXCEPT ![r] = Exc("FileExistsError", "mkdir")]
                           /\ UNCHANGED <<dirs, denied>>
                      ELSE \/ /\ dirs' = dirs \cup {nested_extract_dir}
                              /\ stack' = [stack EXCEPT ![r] =
                                     Append(Append(Below(r), f),
                                            ExtractFrame(Upload(name, files[item].size,
                                                                files[item].data),
                                                         nested_extract_dir,
                                                         f.depth + 1))]
                              /\ UNCHANGED <<exc, denied>>
                           \* mkdir in a directory that may not be written
                           \* to: PermissionError, taken by line 291
                           \/ /\ ~IsDir(nested_extract_dir)
                              /\ stack' = SetTop(r, [f EXCEPT !.stage = "return"])
                              /\ denied' = denied \cup {nested_extract_dir}
                              /\ UNCHANGED <<dirs, exc>>
                 ELSE /\ stack' = SetTop(r, f)
                      /\ UNCHANGED <<dirs, exc, denied>>
            ELSE IF IsDir(item) /\ DirWanted(name)
            THEN /\ stack' = [stack EXCEPT ![r] =
                        Append(Append(Below(r), f),
                               FindFrame(item, SubdirDepth(f.depth)))]
                 /\ UNCHANGED <<dirs, exc, denied>>
            ELSE /\ stack' = SetTop(r, f)
                 /\ UNCHANGED <<dirs, exc, denied>>
    /\ UNCHANGED <<files, pc, upload, temp_dir, supported, textIdx, combined,
                   rmtrees, writes, probe, serverVars>>

\* return supported_files: into the caller's list (extend), or out of
\* process_archive as (supported_files, temp_dir)
FindReturn(r) ==
    /\ pc[r] = "pa_run"
    /\ stack[r] # <<>>
    /\ Top(r).fn = "find"
    /\ \/ Top(r).stage = "return"
       \/ Top(r).stage = "iter" /\ Top(r).todo = {}
    /\ IF Len(stack[r]) > 1
       THEN /\ stack' = [stack EXCEPT ![r] =
                   Append(SubSeq(Below(r), 1, Len(Below(r)) - 1),
                          [Below(r)[Len(Below(r))] EXCEPT !.acc = @ \o Top(r).acc])]
            /\ UNCHANGED <<pc, supported, temp_dir>>
       ELSE /\ stack' = [stack EXCEPT ![r] = <<>>]
            /\ supported' = [supported EXCEPT ![r] = Top(r).acc]
            /\ temp_dir' = [temp_dir EXCEPT ![r] = TempDir(r)]
            /\ pc' = [pc EXCEPT ![r] = "paf_check"]
    /\ UNCHANGED <<files, dirs, upload, exc, textIdx, combined, rmtrees, writes, denied, probe, serverVars>>

---------------------------------------------------------------------------
(* server.py: process_archive_files *)

\* extract_text_from_file knows .pdf and .txt; any other name raises
TextReadable(name) ==
    EndsWith(Lower(name), EXT_PDF) \/ EndsWith(Lower(name), EXT_TXT)

\* if not supported_files: raise ValueError
PafCheck(r) ==
    /\ pc[r] = "paf_check"
    /\ IF supported[r] = <<>>
       THEN /\ exc' = [exc EXCEPT ![r] = Exc("ValueError", "no_supported_files")]
            /\ pc' = [pc EXCEPT ![r] = "paf_finally"]
            /\ textIdx' = textIdx
       ELSE /\ pc' = [pc EXCEPT ![r] = "paf_texts"]
            /\ textIdx' = [textIdx EXCEPT ![r] = 1]
            /\ exc' = exc
    /\ UNCHANGED <<files, dirs, upload, stack, temp_dir, supported, combined,
                   rmtrees, writes, denied, probe, serverVars>>

\* one iteration of the text loop: the reader returns a text or raises
PafText(r) ==
    /\ pc[r] = "paf_texts"
    /\ textIdx[r] <= Len(supported[r])
    /\ LET file_path == supported[r][textIdx[r]]
       IN  \/ /\ TextReadable(file_path[Len(file_path)])
              /\ combined' = [combined EXCEPT ![r] = Append(@, file_path)]
           \/ combined' = combined
    /\ textIdx' = [textIdx EXCEPT ![r] = @ + 1]
    /\ UNCHANGED <<files, dirs, pc, upload, stack, exc, temp_dir, supported,
                   rmtrees, writes, denied, probe, serverVars>>

\* if not combined_text: raise ValueError; else return the joined text
PafTextsEnd(r) ==
    /\ pc[r] = "paf_texts"
    /\ textIdx[r] > Len(supported[r])
    /\ exc' = [exc EXCEPT ![r] =
           IF combined[r] = <<>> THEN Exc("ValueError", "no_text") ELSE NoExc]
    /\ pc' = [pc EXCEPT ![r] = "paf_finally"]
    /\ UNCHANGED <<files, dirs, upload, stack, temp_dir, supported, textIdx,
                   combined, rmtrees, writes, denied, probe, serverVars>>

PafFinally_Unguarded(r) ==
    /\ pc[r] = "paf_finally"
    /\ Rmtree(TempDir(r))
    /\ rmtrees' = [rmtrees EXCEPT ![r].paf = @ + 1]
    /\ pc' = [pc EXCEPT ![r] = "done"]
    /\ UNCHANGED <<upload, stack, exc, temp_dir, supported, textIdx, combined, writes, denied, probe, serverVars>>

\* finally: if temp_dir and temp_dir.exists(): shutil.rmtree(temp_dir)
PafFinally(r) ==
    /\ pc[r] = "paf_finally"
    /\ IF temp_dir[r] # None /\ Exists(temp_dir[r])
       THEN /\ Rmtree(temp_dir[r])
            /\ rmtrees' = [rmtrees EXCEPT ![r].paf = @ + 1]
       ELSE UNCHANGED <<files, dirs, rmtrees>>
    /\ pc' = [pc EXCEPT ![r] = "done"]
    /\ UNCHANGED <<upload, stack, exc, temp_dir, supported, textIdx, combined, writes, denied, probe, serverVars>>

Next ==
    \E r \in Reqs :
        \/ MkTemp(r)
        \/ ValidateArchiveSafety(r)
        \/ Dispatch(r)
        \/ OpenArchive(r)
        \/ ExtractMember(r)
        \/ ExtractLoopEnd(r)
        \/ ExtractReturn(r)
        \/ Unwind(r)
        \/ PaExcept(r)
        \/ FindEnter(r)
        \/ FindItem(r)
        \/ FindReturn(r)
        \/ PafCheck(r)
        \/ PafText(r)
        \/ PafTextsEnd(r)
        \/ PafFinally(r)

Spec == Init /\ [][Next]_vars

\* validate_extracted_path returns None or raises SecurityValidationError
ValidateExtractedPath ==
    /\ probe.result = "called"
    /\ probe' = [probe EXCEPT !.result =
           IF ExtractedPathOk(probe.extract_to, probe.target_path)
           THEN "returned" ELSE "SecurityValidationError"]
    /\ UNCHANGED <<files, dirs, pc, upload, stack, exc, temp_dir, supported,
                   textIdx, combined, rmtrees, writes, denied, serverVars>>

NextValidate == ValidateExtractedPath

SpecValidate == InitValidate /\ [][NextValidate]_vars

\* two requests in flight, their steps interleaved in any order
SpecConc == InitConc /\ [][Next]_vars

---------------------------------------------------------------------------
(* /analyze and /api/results on the results folder *)

MetaAt(r, op, at) == meta[r].op = op /\ meta[r].pc = at

\* the folder as it is before the first request: no earlier result or
\* one, possibly without title and timestamp or cut short, and a cache that
\* is missing, unreadable, or the list of the results json.load takes
InitFolder ==
    /\ \E old \in {AbsentFile, ResultFile("plan", 0 - TicksPerSecond),
                   BareResultFile, UnparseableFile} :
            result_files =
                [n \in ResultNames |->
                    IF n = ResultFilename(0 - TicksPerSecond) THEN old
                    ELSE AbsentFile]
    /\ \/ metadata_file \in {AbsentCache, UnparseableCache}
       \/ \E order \in Orders({n \in ResultNames : result_files[n].kind # "absent"}) :
              metadata_file = CacheOf(ScannedEntries(order))
    /\ now = 0
    /\ added = <<>>
    /\ conversations = [s \in {} |-> <<>>]
    /\ chat = NoChat

\* one client: its requests come one after the other
InitResults ==
    /\ ArchiveIdle
    /\ InitFolder
    /\ meta = [r \in Reqs |-> IF r = 1 THEN NoRequest(MaxAnalyses, MaxLists) ELSE NoRequest(0, 0)]

\* two clients whose requests the server handles in two threads
InitResultsConc ==
    /\ ArchiveIdle
    /\ InitFolder
    /\ meta = [r \in Reqs |-> NoRequest(1, IF r = 1 THEN MaxLists ELSE 0)]

\* /analyze from "# Save result": the file name and the timestamp are read
\* from the clock one after the other, the result file is written, and
\* add_result_metadata is entered
AnalyzeSaveResult(r) ==
    /\ MetaAt(r, "none", "idle")
    /\ meta[r].left > 0
    /\ \E title \in Titles, t1 \in now..MaxClock :
        \E timestamp \in t1..MaxClock :
            LET result_filename == ResultFilename(t1)
            IN  /\ result_files' = [result_files EXCEPT
                       ![result_filename] = ResultFile(title, timestamp)]
                /\ now' = timestamp
                /\ added' = Append(added, MetaEntry(result_filename, title, timestamp))
                /\ meta' = [meta EXCEPT ![r] =
                       [@ EXCEPT !.op = "analyze", !.pc = "load",
                                 !.filename = result_filename, !.title = title,
                                 !.timestamp = timestamp, !.left = @ - 1,
                                 !.response = <<>>]]
    /\ UNCHANGED <<metadata_file, conversations, chat, archiveVars>>

\* /api/results is entered
ApiListResults(r) ==
    /\ MetaAt(r, "none", "idle")
    /\ meta[r].lists > 0
    /\ meta' = [meta EXCEPT ![r] =
           [@ EXCEPT !.op = "list", !.pc = "load", !.lists = @ - 1,
                     !.response = <<>>]]
    /\ UNCHANGED <<result_files, metadata_file, now, added, conversations, chat,
                   archiveVars>>

\* load_metadata up to its return or its call of rebuild_metadata
LoadMetadata(r) ==
    /\ meta[r].pc = "load"
    /\ meta' = [meta EXCEPT ![r] =
           IF metadata_file.kind = "json"
           THEN [@ EXCEPT !.pc = "loaded", !.found = "json",
                          !.metadata = metadata_file.entries]
           ELSE [@ EXCEPT !.pc = "rebuild", !.found = metadata_file.kind]]
    /\ UNCHANGED <<result_files, metadata_file, now, added, conversations, chat,
                   archiveVars>>

\* rebuild_metadata's scan of the folder
RebuildMetadata(r) ==
    /\ meta[r].pc = "rebuild"
    /\ \E order \in Orders(GlobJson \ {METADATA_FILE}) :
           meta' = [meta EXCEPT ![r] =
               [@ EXCEPT !.pc = "save_open", !.ret = "rebuild",
                         !.metadata = ScannedEntries(order)]]
    /\ UNCHANGED <<result_files, metadata_file, now, added, conversations, chat,
                   archiveVars>>

\* save_metadata: open(METADATA_FILE, "w") leaves the file empty
SaveMetadataOpen(r) ==
    /\ meta[r].pc = "save_open"
    /\ metadata_file' = UnparseableCache
    /\ meta' = [meta EXCEPT ![r] = [@ EXCEPT !.pc = "save_write"]]
    /\ UNCHANGED <<result_files, now, added, conversations, chat, archiveVars>>

\* save_metadata: json.dump and the end of the with block; rebuild_metadata
\* then returns the list to load_metadata's caller, add_result_metadata
\* returns to /analyze, which responds
SaveMetadataWrite(r) ==
    /\ meta[r].pc = "save_write"
    /\ metadata_file' = CacheOf(meta[r].metadata)
    /\ meta' = [meta EXCEPT ![r] =
           IF meta[r].ret = "rebuild"
           THEN [@ EXCEPT !.pc = "loaded", !.ret = "none"]
           ELSE NoRequest(meta[r].left, meta[r].lists)]
    /\ UNCHANGED <<result_files, now, added, conversations, chat, archiveVars>>

\* add_result_metadata: metadata.append({...}) on the list load_metadata
\* returned
AddResultMetadata(r) ==
    /\ MetaAt(r, "analyze", "loaded")
    /\ meta' = [meta EXCEPT ![r] =
           [@ EXCEPT !.pc = "save_open", !.ret = "add",
                     !.metadata = Append(@, MetaEntry(meta[r].filename, meta[r].title,
                                                      meta[r].timestamp))]]
    /\ UNCHANGED <<result_files, metadata_file, now, added, conversations, chat,
                   archiveVars>>

\* /api/results: sort what load_metadata returned and respond
ApiListReturn(r) ==
    /\ MetaAt(r, "list", "loaded")
    /\ meta' = [meta EXCEPT ![r] =
           [NoRequest(meta[r].left, meta[r].lists) EXCEPT
               !.response = SortNewestFirst(meta[r].metadata)]]
    /\ UNCHANGED <<result_files, metadata_file, now, added, conversations, chat,
                   archiveVars>>

NextResults ==
    \E r \in Reqs :
        \/ AnalyzeSaveResult(r)
        \/ ApiListResults(r)
        \/ LoadMetadata(r)
        \/ RebuildMetadata(r)
        \/ SaveMetadataOpen(r)
        \/ SaveMetadataWrite(r)
        \/ AddResultMetadata(r)
        \/ ApiListReturn(r)

SpecResults == InitResults /\ [][NextResults]_vars

SpecResultsConc == InitResultsConc /\ [][NextResults]_vars

---------------------------------------------------------------------------
(* /chat *)

InitChat ==
    /\ ArchiveIdle
    /\ ServerIdle

\* chat() up to the call of the provider: the two 400 responses, the
\* session's list created if there is none, the user's message appended
ChatReceive ==
    /\ chat.pc = "idle"
    /\ \E message \in Messages, session_id \in Sessions \cup {""} :
        IF message = "" \/ session_id = ""
        THEN /\ chat' = [pc |-> "idle", session_id |-> session_id,
                         message |-> message, status |-> 400]
             /\ UNCHANGED conversations
        ELSE LET conversation ==
                     IF session_id \in DOMAIN conversations
                     THEN conversations[session_id] ELSE <<>>
             IN  /\ Len(conversation) < MaxHistory
                 /\ conversations' =
                        [s \in DOMAIN conversations \cup {session_id} |->
                            IF s = session_id
                            THEN Append(conversation, ChatMessage("user", message))
                            ELSE conversations[s]]
                 /\ chat' = [pc |-> "provider", session_id |-> session_id,
                             message |-> message, status |-> 0]
    /\ UNCHANGED <<result_files, metadata_file, meta, now, added, archiveVars>>

\* if len(conversation) > 20: conversation = conversation[-20:]
Trimmed(conversation) ==
    IF Len(conversation) > MAX_CONVERSATION
    THEN SubSeq(conversation, Len(conversation) - MAX_CONVERSATION + 1,
                Len(conversation))
    ELSE conversation

\* provider.analyze_text returned: the answer is appended, the history is
\* cut to its last messages, the response is sent
ChatRespond ==
    /\ chat.pc = "provider"
    /\ conversations' = [conversations EXCEPT ![chat.session_id] =
           Trimmed(Append(@, ChatMessage("assistant", "answer")))]
    /\ chat' = [chat EXCEPT !.pc = "idle", !.status = 200]
    /\ UNCHANGED <<result_files, metadata_file, meta, now, added, archiveVars>>

\* create_provider or analyze_text raised: except Exception responds 500
ChatFail ==
    /\ chat.pc = "provider"
    /\ chat' = [chat EXCEPT !.pc = "idle", !.status = 500]
    /\ UNCHANGED <<result_files, metadata_file, meta, now, added, conversations,
                   archiveVars>>

NextChat == ChatReceive \/ ChatRespond \/ ChatFail

SpecChat == InitChat /\ [][NextChat]_vars

---------------------------------------------------------------------------
(* Properties *)

ProperDescendant(p, root) == Len(p) > Len(root) /\ SubSeq(p, 1, Len(root)) = root

\* the member's name joined to the extraction directory resolves outside it
EscapesDir(root, m) ==
    LET t == Resolve(Join(root, m))
    IN  ~(t = Resolve(root) \/ ProperDescendant(t, Resolve(root)))

\* the extractor would write this kind of entry
Materialisable(extractor, m) ==
    IF extractor = "zip" THEN m.kind # "dir" ELSE m.kind = "file"

WithinFileLimit(size) == size <= MAX_FILE_SIZE_MB * MB

\* an extractor's call, once the archive is open and its member count passed
InLoop(f) == f.fn = "extract" /\ f.idx >= 1

\* the members this call of an extractor has written
WritesOf(r, f) ==
    {w \in writes : w.req = r /\ w.root = f.dir /\ w.arch = f.arch.name
                    /\ w.level = f.depth}

\* C1: every file written to disk, by a top-level or a nested extraction,
\* has a canonical path that is a descendant of the directory it was
\* extracted into and of the temporary directory of its request; so has
\* every file that is on disk.
C1_WrittenPathsContained ==
    /\ \A w \in writes :
        /\ w.path = Resolve(w.path)
        /\ ProperDescendant(w.path, w.root)
        /\ ProperDescendant(w.path, TempDir(w.req))
    /\ \A p \in DOMAIN files : \E r \in Reqs : ProperDescendant(p, TempDir(r))

\* a nested extraction has written a member, and a member whose name holds
\* ".." without escaping has been written
C1_Witness ==
    /\ \E w \in writes : w.level = 1 /\ w.root # TempDir(w.req)
    /\ \E w \in writes : w.path = Append(TempDir(1), N("g", EXT_TXT))

\* C2 as stated: an extractor that got past the member-count check on an
\* archive with an escaping member OF ANY ENTRY KIND ends by raising
\* SecurityValidationError.
C2_AnyEscapingMemberRaises ==
    \A r \in Reqs : \A i \in 1..Len(stack[r]) :
        LET f == stack[r][i]
            ms == f.arch.data.members
        IN  (/\ InLoop(f)
             /\ f.stage \in {"returned", "raised"}
             /\ \E k \in 1..Len(ms) : EscapesDir(f.dir, ms[k]))
            => (f.stage = "raised" /\ exc[r].kind = "SecurityValidationError")

\* C2 amended: an extractor that got past the member-count check on an
\* archive with an escaping member that the loop does not skip (ZIP: not a
\* directory entry; TAR: a regular file) never returns: it ends by raising
\* SecurityValidationError for the path traversal.
C2_EscapingFileMemberRaises ==
    \A r \in Reqs : \A i \in 1..Len(stack[r]) :
        LET f == stack[r][i]
            ms == f.arch.data.members
        IN  (/\ InLoop(f)
             /\ f.stage \in {"returned", "raised"}
             /\ \E k \in 1..Len(ms) :
                    /\ Materialisable(Extractor(f.arch.name), ms[k])
                    /\ EscapesDir(f.dir, ms[k]))
            => (/\ f.stage = "raised"
                /\ exc[r] = Exc("SecurityValidationError", "path_traversal"))

\* an extractor has raised for an escaping member that is not the first
\* member of its archive, and one for an absolute member name
C2_Witness ==
    \E r \in Reqs :
        /\ stack[r] # <<>>
        /\ Top(r).stage = "raised"
        /\ exc[r].why = "path_traversal"
        /\ Top(r).idx = 2
        /\ Top(r).arch.data.members[2].abs

\* C3 as stated: when an extractor raises SecurityValidationError for a
\* path-traversal member, it has written no member of that archive,
\* wherever the offending member stands in the member list.
C3_NothingWrittenOnTraversal ==
    \A r \in Reqs :
        (/\ stack[r] # <<>>
         /\ Top(r).fn = "extract"
         /\ Top(r).stage = "raised"
         /\ exc[r].why = "path_traversal")
        => (Top(r).acc = <<>> /\ WritesOf(r, Top(r)) = {})

\* C4: the member count, directory entries included, is compared with
\* MAX_FILES_IN_ARCHIVE before any member is extracted: the loop runs only
\* when the count is within the limit, the "too many files" error is raised
\* only above the limit and with nothing written, and one archive never has
\* more members written than the limit.
C4_MemberCountGate ==
    \A r \in Reqs : \A i \in 1..Len(stack[r]) :
        LET f == stack[r][i]
            n == Len(f.arch.data.members)
        IN  f.fn = "extract" =>
            /\ (f.stage \in {"loop", "returned"} => n <= MAX_FILES_IN_ARCHIVE)
            /\ (f.stage = "raised" /\ exc[r].why = "too_many_files" =>
                    /\ n > MAX_FILES_IN_ARCHIVE
                    /\ exc[r].kind = "SecurityValidationError"
                    /\ f.acc = <<>>
                    /\ WritesOf(r, f) = {})
            /\ (f.stage = "raised" /\ n > MAX_FILES_IN_ARCHIVE =>
                    exc[r].why \in {"archive_size", "unsupported", "corrupted",
                                    "too_many_files"})
            /\ Len(f.acc) <= MAX_FILES_IN_ARCHIVE
            /\ Cardinality(WritesOf(r, f)) <= MAX_FILES_IN_ARCHIVE

\* an archive of exactly MAX_FILES_IN_ARCHIVE members, one of them a
\* directory entry, has been extracted
C4_Witness ==
    \E r \in Reqs :
        /\ stack[r] # <<>>
        /\ Top(r).stage = "returned"
        /\ Len(Top(r).arch.data.members) = MAX_FILES_IN_ARCHIVE
        /\ Top(r).arch.data.members[1].kind = "dir"
        /\ Len(Top(r).acc) = MAX_FILES_IN_ARCHIVE - 1

\* C5: an archive file larger than MAX_ARCHIVE_SIZE_MB is rejected with
\* SecurityValidationError by the size check, before the name is looked at
\* and before the archive is opened, whatever its suffix; nothing of it is
\* ever written and the request fails with that error.
C5_OversizedArchiveRejected ==
    /\ \A r \in Reqs : \A i \in 1..Len(stack[r]) :
        LET f == stack[r][i]
        IN  (f.fn = "extract" /\ f.arch.size > MAX_ARCHIVE_SIZE_MB * MB) =>
            /\ f.stage \in {"validate", "raised"}
            /\ f.stage = "raised" =>
                   exc[r] = Exc("SecurityValidationError", "archive_size")
            /\ f.acc = <<>>
            /\ WritesOf(r, f) = {}
    /\ \A r \in Reqs :
        upload[r].size > MAX_ARCHIVE_SIZE_MB * MB =>
            /\ \A w \in writes : w.req # r
            /\ pc[r] \notin {"paf_check", "paf_texts"}
            /\ pc[r] \in {"pa_except", "paf_finally", "done"} =>
                   exc[r] = Exc("SecurityValidationError", "archive_size")

\* a request for an oversized file with no archive suffix has ended
C5_Witness ==
    \E r \in Reqs :
        /\ pc[r] = "done"
        /\ upload[r].size = MAX_ARCHIVE_SIZE_MB * MB + 1
        /\ Extractor(upload[r].name) = "none"
        /\ exc[r].kind = "SecurityValidationError"

\* C6: no file written by an extractor, top-level or nested, has a declared
\* size above MAX_FILE_SIZE_MB; nor has any file on disk.
C6_NoOversizedFileWritten ==
    /\ \A w \in writes : w.size <= MAX_FILE_SIZE_MB * MB
    /\ \A p \in DOMAIN files : files[p].size <= MAX_FILE_SIZE_MB * MB

\* an extractor has passed over an oversized member and written one of
\* exactly the limit
C6_Witness ==
    \E r \in Reqs :
        /\ stack[r] # <<>>
        /\ Top(r).stage = "returned"
        /\ \E k \in 1..Len(Top(r).arch.data.members) :
               Top(r).arch.data.members[k].size > MAX_FILE_SIZE_MB * MB
        /\ \E w \in WritesOf(r, Top(r)) : w.size = MAX_FILE_SIZE_MB * MB

AcceptedIdx(extractor, ms) ==
    {k \in 1..Len(ms) : Materialisable(extractor, ms[k]) /\ WithinFileLimit(ms[k].size)}

RECURSIVE ExpectedFrom(_, _, _, _)
ExpectedFrom(dir, extractor, ms, k) ==
    IF k > Len(ms) THEN <<>>
    ELSE (IF k \in AcceptedIdx(extractor, ms) THEN <<Join(dir, ms[k])>> ELSE <<>>)
         \o ExpectedFrom(dir, extractor, ms, k + 1)

\* C7: an extractor that got past the member-count check on an archive
\* with no escaping member raises nothing, and what it returns is, in
\* archive order, extract_to/<member name> for each file member within the
\* per-file limit: exactly those members were written and are on disk, an
\* oversized one was not, and the members after it were.
C7_ReturnedListExact ==
    \A r \in Reqs : \A i \in 1..Len(stack[r]) :
        LET f == stack[r][i]
            ms == f.arch.data.members
            x == Extractor(f.arch.name)
        IN  (InLoop(f) /\ \A k \in 1..Len(ms) : ~EscapesDir(f.dir, ms[k])) =>
            /\ f.stage # "raised"
            /\ f.stage = "returned" =>
                /\ f.acc = ExpectedFrom(f.dir, x, ms, 1)
                /\ {w.idx : w \in WritesOf(r, f)} = AcceptedIdx(x, ms)
                /\ \A k \in AcceptedIdx(x, ms) : IsFile(Resolve(Join(f.dir, ms[k])))

\* an extractor has returned from an archive whose first member is
\* oversized and whose second is not
C7_Witness ==
    \E r \in Reqs :
        /\ stack[r] # <<>>
        /\ Top(r).stage = "returned"
        /\ Len(Top(r).arch.data.members) = 2
        /\ Top(r).arch.data.members[1].size > MAX_FILE_SIZE_MB * MB
        /\ Len(Top(r).acc) = 1

\* C8: the archive-nesting depth never exceeds MAX_EXTRACTION_DEPTH = 1:
\* no call runs deeper, no member of an archive found in a nested
\* extraction is written, and every document handed back was written from
\* the uploaded archive or from an archive directly inside it.
C8_DepthBounded ==
    /\ \A r \in Reqs : \A i \in 1..Len(stack[r]) :
           stack[r][i].depth <= MAX_EXTRACTION_DEPTH
    /\ \A w \in writes : w.level <= MAX_EXTRACTION_DEPTH
    /\ \A r \in Reqs : \A j \in 1..Len(supported[r]) :
           \E w \in writes :
               /\ w.path = supported[r][j]
               /\ w.req = r
               /\ w.level <= MAX_EXTRACTION_DEPTH

\* the scan of a nested extraction has gone over an archive lying in it
C8_Witness ==
    \E r \in Reqs :
        /\ stack[r] # <<>>
        /\ Top(r).fn = "find"
        /\ Top(r).depth = 1
        /\ Top(r).stage = "iter"
        /\ Top(r).todo = {}
        /\ \E name \in Children(Top(r).dir) :
               /\ IsArchiveFile(name)
               /\ files[Append(Top(r).dir, name)].data.fmt = "zip"

\* C9: when process_archive_files is over, by return or by any exception,
\* the temporary directory of the request and everything beneath it is gone.
C9_TempDirGoneOnExit ==
    \A r \in Reqs :
        pc[r] = "done" =>
            \A p \in DOMAIN files \cup dirs : ~Under(TempDir(r), p)

\* a request has ended with a SecurityValidationError raised after some
\* member had been written
C9_Witness ==
    \E r \in Reqs :
        /\ pc[r] = "done"
        /\ exc[r].kind = "SecurityValidationError"
        /\ \E w \in writes : w.req = r

\* C10: the removal of the workspace is made exactly once per request:
\* never twice, and once when the request is over.
C10_RemovedExactlyOnce ==
    \A r \in Reqs :
        /\ rmtrees[r].pa + rmtrees[r].paf <= 1
        /\ pc[r] = "done" => rmtrees[r].pa + rmtrees[r].paf = 1

\* a request has ended on process_archive's error path
C10_Witness ==
    \E r \in Reqs :
        /\ pc[r] = "done"
        /\ rmtrees[r].pa = 1
        /\ exc[r].kind = "ArchiveExtractionError"

\* the bytes are no archive at all, or the name has no archive suffix
BadInput(arch) == arch.data.fmt = "none" \/ Extractor(arch.name) = "none"

\* C11: for a file within the archive-size limit, bytes that are no archive
\* under a .zip, .tar, .tar.gz or .tgz name, and a name without a supported
\* archive suffix, end extract_archive with ArchiveExtractionError, never
\* with SecurityValidationError: the member loop is never entered, nothing
\* is written or returned, and the extraction directory stays empty.
C11_BadInputIsExtractionError ==
    \A r \in Reqs :
        /\ \A i \in 1..Len(stack[r]) :
            LET f == stack[r][i]
            IN  (f.fn = "extract" /\ ArchiveSizeOk(f.arch.size) /\ BadInput(f.arch)) =>
                    /\ f.stage \in {"validate", "dispatch", "open", "raised"}
                    /\ f.stage = "raised" => exc[r].kind = "ArchiveExtractionError"
                    /\ f.acc = <<>>
                    /\ WritesOf(r, f) = {}
        /\ (pc[r] \in {"paf_start", "pa_run", "pa_except"}
              /\ ArchiveSizeOk(upload[r].size) /\ BadInput(upload[r])) =>
                /\ pc[r] = "pa_except" => exc[r].kind = "ArchiveExtractionError"
                /\ \A p \in DOMAIN files : ~Under(TempDir(r), p)

\* extract_archive has failed on bytes that are no archive under a .tgz
\* name, the file being exactly as large as the limit allows
C11_Witness ==
    \E r \in Reqs :
        /\ pc[r] = "pa_except"
        /\ upload[r].name = N("u", EXT_TGZ)
        /\ upload[r].data.fmt = "none"
        /\ upload[r].size = MAX_ARCHIVE_SIZE_MB * MB
        /\ exc[r] = Exc("ArchiveExtractionError", "corrupted")

ExtractorKinds == {"SecurityValidationError", "ArchiveExtractionError"}

\* C12: a failing exit of extract_archive, and a failing exit of
\* process_archive (its except clause re-raising), delivers a
\* SecurityValidationError or an ArchiveExtractionError and nothing else;
\* a path or count or size violation is delivered as
\* SecurityValidationError.
C12_OnlyTwoKindsDelivered ==
    \A r \in Reqs :
        /\ \A i \in 1..Len(stack[r]) :
            (stack[r][i].fn = "extract" /\ stack[r][i].stage = "raised") =>
                /\ exc[r].kind \in ExtractorKinds
                /\ exc[r].why \in {"archive_size", "too_many_files", "path_traversal"}
                       <=> exc[r].kind = "SecurityValidationError"
        /\ pc[r] = "pa_except" => exc[r].kind \in ExtractorKinds

Count(seq, x) == Cardinality({i \in DOMAIN seq : seq[i] = x})

\* an archive the extractor reads to its end without raising
CleanArchive(name, a) ==
    /\ Opens(Extractor(name), name, a.fmt)
    /\ ~TooManyFiles(Len(a.members))
    /\ \A k \in 1..Len(a.members) :
        ~(Materialisable(Extractor(name), a.members[k])
            /\ EscapesDir(<<TMP>>, a.members[k]))

\* the documents an archive holds that extraction writes
DocsIn(a) ==
    {k \in 1..Len(a.members) :
        /\ a.members[k].kind = "file"
        /\ WithinFileLimit(a.members[k].size)
        /\ Lower(Suffix(a.members[k].name[Len(a.members[k].name)]))
               \in SUPPORTED_DOCUMENT_EXTENSIONS}

\* a member of the top-level archive that lands in the workspace root as a
\* nested archive the extractor reads without raising
NestedAtRoot(r, m) ==
    /\ m.kind = "file" /\ ~m.abs /\ Len(m.name) = 1
    /\ WithinFileLimit(m.size)
    /\ IsArchiveFile(m.name[1])
    /\ CleanArchive(m.name[1], m.data)

\* C13: when process_archive has returned and no listing was refused, every
\* nested archive in the workspace root was extracted into a sub-directory
\* of the workspace, each document it holds is in the returned list exactly
\* once, and the nested archive itself is not in the list.
C13_NestedDocsExactlyOnce ==
    \A r \in Reqs :
        (pc[r] = "paf_check" /\ denied = {}) =>
            \A k \in 1..Len(upload[r].data.members) :
                LET m == upload[r].data.members[k]
                    nd == NestedExtractDir(TempDir(r), m.name[1])
                IN  NestedAtRoot(r, m) =>
                        /\ ProperDescendant(nd, TempDir(r))
                        /\ Count(supported[r], Append(TempDir(r), m.name[1])) = 0
                        /\ \A j \in DocsIn(m.data) :
                            Count(supported[r],
                                  Resolve(nd \o m.data.members[j].name)) = 1

\* what lies on disk inside the temporary directory of a request
OwnFiles(r) == {<<p, files[p]>> : p \in {q \in DOMAIN files : Under(TempDir(r), q)}}
OwnDirs(r) == {d \in dirs : Under(TempDir(r), d)}

\* the step is a step of request r
Stepped(r) == pc'[r] # pc[r] \/ stack'[r] # stack[r] \/ textIdx'[r] # textIdx[r]

C14_OwnPathsOnly ==
    /\ TempDir(1) # TempDir(2)
    /\ \A r \in Reqs :
        /\ temp_dir[r] \in {None, TempDir(r)}
        /\ \A i \in 1..Len(stack[r]) : Under(TempDir(r), stack[r][i].dir)
        /\ \A w \in writes : w.req = r =>
               Under(TempDir(r), w.path) /\ ~Under(TempDir(3 - r), w.path)

C14_OthersStepLeavesTree ==
    \A r \in Reqs :
        ~Stepped(r) => OwnFiles(r)' = OwnFiles(r) /\ OwnDirs(r)' = OwnDirs(r)

\* C14: in every interleaving of two requests the temporary directories are
\* distinct; every directory a request extracts into or lists, every path
\* it writes and the directory it removes lie inside its own temporary
\* directory; and a step of one request leaves the files and directories
\* inside the other request's temporary directory as they were.
C14_RequestsIsolated == []C14_OwnPathsOnly /\ [][C14_OthersStepLeavesTree]_vars

\* both requests are running with files on disk, one of them scanning its
\* directory while the other has just refused a member named into it
C14_Witness ==
    /\ pc[1] = "pa_run" /\ pc[2] = "pa_run"
    /\ exc[1] = Exc("SecurityValidationError", "path_traversal")
    /\ Top(2).fn = "find" /\ Top(2).stage = "iter"
    /\ \E w \in writes : w.req = 1
    /\ \E p \in DOMAIN files : Under(TempDir(2), p)

\* extract_archive has passed this call's file to extract_zip or extract_tar
Dispatched(r, f) ==
    /\ f.fn = "extract"
    /\ \/ f.stage \in {"open", "loop", "returned"}
       \/ f.stage = "raised" /\ exc[r].why \notin {"archive_size", "unsupported"}

\* extract_archive has refused this call's file as of no supported format
Undispatched(r, f) ==
    f.fn = "extract" /\ f.stage = "raised" /\ exc[r].why = "unsupported"

\* the name is an archive suffix and nothing before it
BareSuffix(name) == Lower(name) \in {EXT_ZIP, EXT_TAR, EXT_TGZ}

\* C15 as stated: is_archive_file(name) is true exactly for the names that
\* extract_archive passes to the ZIP or the TAR extractor.
C15_DetectionIffDispatch ==
    \A r \in Reqs : \A i \in 1..Len(stack[r]) :
        LET f == stack[r][i]
        IN  /\ Dispatched(r, f) => IsArchiveFile(f.arch.name)
            /\ Undispatched(r, f) => ~IsArchiveFile(f.arch.name)

\* C15: every name is_archive_file accepts is one extract_archive passes to
\* the ZIP or the TAR extractor, in any letter case; every name
\* extract_archive passes on is accepted by is_archive_file unless it is
\* the bare suffix ".zip", ".tar" or ".tgz", for which is_archive_file is
\* false.
C15_DetectionAgreesButBareSuffix ==
    \A r \in Reqs : \A i \in 1..Len(stack[r]) :
        LET f == stack[r][i]
        IN  /\ Dispatched(r, f) =>
                (IsArchiveFile(f.arch.name) <=> ~BareSuffix(f.arch.name))
            /\ Undispatched(r, f) => ~IsArchiveFile(f.arch.name)

\* a name in mixed case with the double suffix has been passed to extract_tar
C15_Witness ==
    \E r \in Reqs :
        /\ Running(r, "extract", "open")
        /\ Top(r).arch.name = N("u", <<".", "T", "A", "R", ".", "G", "Z">>)
        /\ IsArchiveFile(Top(r).arch.name)

\* process_archive has failed, or is failing: an exception is on its way
\* out of the outermost call
Failed(r) ==
    \/ pc[r] = "pa_except"
    \/ pc[r] \in {"paf_finally", "done"} /\ rmtrees[r].pa = 1
    \/ pc[r] = "pa_run" /\ stack[r][1].stage = "raised"

\* how far process_archive has come: 1 temporary directory created, 2 size
\* validated, 3 member list read and counted, 4 members extracted,
\* 5 discovery, 6 returned
Phase(r) ==
    IF pc[r] \in {"idle", "paf_start"} THEN 0
    ELSE IF pc[r] = "pa_run"
    THEN LET f == stack[r][1]
         IN  IF f.fn = "find" THEN 5
             ELSE CASE f.stage = "validate" -> 1
                    [] f.stage \in {"dispatch", "open"} -> 2
                    [] f.stage = "loop" -> 3
                    [] f.stage = "returned" -> 4
                    [] OTHER -> 0
    ELSE 6

C16_ChecksBeforeExtraction ==
    \A r \in Reqs :
        /\ \A i \in 1..Len(stack[r]) :
            InLoop(stack[r][i]) =>
                /\ ArchiveSizeOk(stack[r][i].arch.size)
                /\ ~TooManyFiles(Len(stack[r][i].arch.data.members))
        /\ (\E w \in writes : w.req = r) =>
                /\ ArchiveSizeOk(upload[r].size)
                /\ ~TooManyFiles(Len(upload[r].data.members))
        /\ (~Failed(r) /\ Phase(r) >= 5) =>
                /\ CleanArchive(upload[r].name, upload[r].data)
                /\ ArchiveSizeOk(upload[r].size)
                /\ Phase(r) = 5 /\ Len(stack[r]) = 1 => exc[r] = NoExc

C16_StepOrder ==
    \A r \in Reqs :
        /\ Failed(r) => Failed(r)'
        /\ ~Failed(r) =>
               \/ Failed(r)'
               \/ Phase(r)' = Phase(r)
               \/ Phase(r)' = Phase(r) + 1

\* C16: process_archive goes through its steps in one order, none left
\* out: temporary directory, size check, member list and count check,
\* extraction of the members, discovery, return; a failure ends the
\* sequence for good.  No member of any archive is written before that
\* archive's size check and count check have passed, and discovery is
\* under way only when the top-level extraction has raised nothing.
C16_StepsInOrder == []C16_ChecksBeforeExtraction /\ [][C16_StepOrder]_vars

\* process_archive has returned after top-level and nested extraction
C16_Witness ==
    \E r \in Reqs :
        /\ pc[r] = "paf_check"
        /\ \E w \in writes : w.req = r /\ w.level = 0
        /\ \E w \in writes : w.req = r /\ w.level = 1
        /\ supported[r] # <<>>

\* C17: in both extractors the loop never goes past a member that it does
\* not skip as a directory or non-regular entry and that resolves outside
\* the extraction directory, whatever the member's size: it stops there
\* with SecurityValidationError and the call does not return; and every
\* member written had passed the path check.
C17_PathCheckedBeforeSize ==
    \A r \in Reqs : \A i \in 1..Len(stack[r]) :
        LET f == stack[r][i]
            ms == f.arch.data.members
        IN  InLoop(f) =>
                /\ \A k \in 1..Len(ms) :
                    (Materialisable(Extractor(f.arch.name), ms[k])
                        /\ EscapesDir(f.dir, ms[k])) =>
                            /\ f.idx <= k
                            /\ f.stage # "returned"
                            /\ (f.idx = k /\ f.stage = "raised") =>
                                   exc[r] = Exc("SecurityValidationError",
                                                "path_traversal")
                /\ \A w \in WritesOf(r, f) :
                    ExtractedPathOk(f.dir, Join(f.dir, ms[w.idx]))

\* an extractor has raised SecurityValidationError at a member that both
\* escapes the directory and is over the per-file limit, after writing
\* an earlier member
C17_Witness ==
    \E r \in Reqs :
        /\ stack[r] # <<>>
        /\ LET f == Top(r)
           IN  /\ InLoop(f) /\ f.stage = "raised"
               /\ f.arch.data.members[f.idx] = mEscBig
               /\ ~WithinFileLimit(mEscBig.size) /\ EscapesDir(f.dir, mEscBig)
               /\ WritesOf(r, f) # {}
        /\ exc[r] = Exc("SecurityValidationError", "path_traversal")

AtNonRegularTarMember(r) ==
    /\ Running(r, "extract", "loop")
    /\ Extractor(Top(r).arch.name) = "tar"
    /\ Top(r).idx <= Len(Top(r).arch.data.members)
    /\ Top(r).arch.data.members[Top(r).idx].kind # "file"

C19_OnlyRegularFilesWritten ==
    /\ \A w \in writes : Extractor(w.arch) = "tar" => w.kind = "file"
    /\ \A r \in Reqs : \A i \in 1..Len(stack[r]) :
        LET f == stack[r][i]
        IN  (InLoop(f) /\ Extractor(f.arch.name) = "tar") =>
                /\ Len(f.acc) =
                       Cardinality({k \in 1..(f.idx - 1) :
                           /\ f.arch.data.members[k].kind = "file"
                           /\ WithinFileLimit(f.arch.data.members[k].size)})
                /\ (f.stage = "raised" /\ i = Len(stack[r])) =>
                       f.arch.data.members[f.idx].kind = "file"

C19_NonRegularSkipped ==
    \A r \in Reqs :
        (AtNonRegularTarMember(r) /\ stack'[r] # stack[r]) =>
            /\ files' = files
            /\ dirs' = dirs
            /\ writes' = writes
            /\ exc'[r] = NoExc
            /\ stack'[r] = SetTop(r, [Top(r) EXCEPT !.idx = @ + 1])[r]

\* C19: extract_tar writes and returns members that are regular files and
\* no others; at a member that is a directory, a link or a device it
\* creates nothing on disk, raises nothing and goes on to the next member.
C19_TarWritesRegularFilesOnly ==
    []C19_OnlyRegularFilesWritten /\ [][C19_NonRegularSkipped]_vars

\* extract_tar has returned from an archive holding a link and a regular
\* file: the file is on disk and in the returned list, the link is not
C19_Witness ==
    \E r \in Reqs :
        /\ Running(r, "extract", "returned")
        /\ Extractor(Top(r).arch.name) = "tar"
        /\ \E k \in 1..Len(Top(r).arch.data.members) :
               Top(r).arch.data.members[k] = mLink
        /\ Len(Top(r).acc) = 1
        /\ IsFile(Resolve(Top(r).acc[1]))
        /\ ~Exists(Join(Top(r).dir, mLink))

\* the directories between root and p are none of them extraction
\* directories of nested archives
PlainBelow(root, p) ==
    \A k \in (Len(root) + 1)..(Len(p) - 1) : ~StartsWith(p[k], EXTRACTED_PREFIX)

\* a call of find_supported_files that has gone through its listing and
\* is about to return, no listing beneath it having been refused
Scanned(f) ==
    /\ f.fn = "find" /\ f.stage = "iter" /\ f.todo = {}
    /\ \A d \in denied : ~Under(f.dir, d)

\* C20: the call of find_supported_files for a plain sub-directory has the
\* depth of the call that makes it, and only the call for a nested
\* archive's extraction directory is one deeper.  So a call at depth 0
\* that has gone through its directory has made the extraction directory
\* of every archive file below it, under however many plain directories;
\* and a call at depth 1 returns every document below its directory,
\* under however many plain directories.
C20_DirectoriesKeepDepth ==
    \A r \in Reqs : \A i \in 1..Len(stack[r]) :
        LET f == stack[r][i]
        IN  /\ (i = 1 /\ pc[r] = "pa_run") => f.depth = 0
            /\ (i > 1 /\ f.fn = "find") =>
                   f.depth = stack[r][i - 1].depth
                       + (IF StartsWith(f.dir[Len(f.dir)], EXTRACTED_PREFIX)
                          THEN 1 ELSE 0)
            /\ (i = Len(stack[r]) /\ Scanned(f) /\ f.depth = 0) =>
                   \A p \in DOMAIN files :
                       (ProperDescendant(p, f.dir) /\ PlainBelow(f.dir, p)
                           /\ IsArchiveFile(p[Len(p)])) =>
                               IsDir(NestedExtractDir(SubSeq(p, 1, Len(p) - 1),
                                                      p[Len(p)]))
            /\ (i = Len(stack[r]) /\ Scanned(f) /\ f.depth = 1) =>
                   {f.acc[j] : j \in 1..Len(f.acc)} =
                       {p \in DOMAIN files :
                           /\ ProperDescendant(p, f.dir)
                           /\ PlainBelow(f.dir, p)
                           /\ Lower(Suffix(p[Len(p)]))
                                  \in SUPPORTED_DOCUMENT_EXTENSIONS}

\* process_archive has returned a document that lay in a sub-directory of
\* a nested archive that itself lay in a sub-directory of the workspace
C20_Witness ==
    \E r \in Reqs :
        /\ pc[r] = "paf_check"
        /\ \E j \in 1..Len(supported[r]) :
               supported[r][j] =
                   TempDir(r) \o <<<<"d">>, EXTRACTED_PREFIX \o <<"h">>,
                                   <<"d">>, N("s", EXT_TXT)>>

Parent(p) == SubSeq(p, 1, Len(p) - 1)

\* the directory whose scan a PermissionError ended: the directory that
\* could not be listed, or the one in which the extraction directory of a
\* nested archive could not be made
Affected(d) == IF IsDir(d) THEN d ELSE Parent(d)

\* a call of find_supported_files that a PermissionError has ended
EndedByPermissionError(f) ==
    f.fn = "find" /\ f.stage = "return" /\ f.depth <= MAX_EXTRACTION_DEPTH

\* a document of the top-level archive, under plain directories, none of
\* them one whose scan a PermissionError ended
OutsideAffected(r, w) ==
    /\ w.req = r /\ w.level = 0
    /\ Lower(Suffix(w.path[Len(w.path)])) \in SUPPORTED_DOCUMENT_EXTENSIONS
    /\ PlainBelow(TempDir(r), w.path)
    /\ \A d \in denied : ~Under(Affected(d), w.path)

C21_CallSurvives ==
    \A r \in Reqs :
        /\ exc[r].kind # "PermissionError"
        /\ pc[r] = "paf_check" =>
               \A w \in writes :
                   OutsideAffected(r, w) => Count(supported[r], w.path) >= 1

\* C21 as stated: a PermissionError raised while a directory is processed
\* does not fail the call, the call for that directory returns no document,
\* and the documents outside that directory are returned.
C21_AffectedDirYieldsNothing ==
    /\ C21_CallSurvives
    /\ \A r \in Reqs : \A i \in 1..Len(stack[r]) :
           EndedByPermissionError(stack[r][i]) => stack[r][i].acc = <<>>

\* C21: a PermissionError raised while a directory is processed does not
\* fail the call, and the documents outside that directory are returned;
\* when it is the listing of the directory that raised, the call for that
\* directory returns no document.
C21_UnlistableDirYieldsNothing ==
    /\ C21_CallSurvives
    /\ \A r \in Reqs : \A i \in 1..Len(stack[r]) :
           (EndedByPermissionError(stack[r][i]) /\ stack[r][i].dir \in denied) =>
               stack[r][i].acc = <<>>

\* process_archive has returned the document beside a sub-directory whose
\* listing was refused and which holds a document
C21_Witness ==
    \E r \in Reqs :
        /\ pc[r] = "paf_check"
        /\ denied = {Append(TempDir(r), <<"d">>)}
        /\ IsFile(TempDir(r) \o <<<<"d">>, N("a", EXT_TXT)>>)
        /\ supported[r] = <<Append(TempDir(r), N("a", EXT_TXT))>>

\* the nested archive a member was written from: the file of that name
\* beside the extraction directory
ArchiveOf(w) == Append(Parent(w.root), w.arch)

\* C22: when process_archive has returned, no member written from a nested
\* archive whose extraction raised SecurityValidationError or
\* ArchiveExtractionError is in the returned list.
C22_FailedNestedContributesNothing ==
    \A r \in Reqs :
        pc[r] = "paf_check" =>
            \A w \in writes :
                (w.req = r /\ w.level = 1 /\ IsFile(ArchiveOf(w))
                   /\ ~CleanArchive(w.arch, files[ArchiveOf(w)].data)) =>
                       Count(supported[r], w.path) = 0

\* C25: the list process_archive returns holds no document path twice (a
\* path is in the list once for every scan of its directory, so no
\* extraction directory of a nested archive has been scanned twice).
C25_NoPathTwice ==
    \A r \in Reqs :
        pc[r] = "paf_check" =>
            \A j \in 1..Len(supported[r]) : Count(supported[r], supported[r][j]) = 1

\* C26: when process_archive has returned, no PermissionError having been
\* raised, every file with a document extension that the top-level
\* extraction wrote is in the returned list, whatever directories it is in.
C26_TopLevelDocsAllReturned ==
    \A r \in Reqs :
        (pc[r] = "paf_check" /\ denied = {}) =>
            \A w \in writes :
                (w.req = r /\ w.level = 0
                   /\ Lower(Suffix(w.path[Len(w.path)]))
                          \in SUPPORTED_DOCUMENT_EXTENSIONS) =>
                       Count(supported[r], w.path) >= 1

\* the call on top of the stack is extract_archive for a nested archive and
\* is raising one of the extractors' two kinds of error
NestedExtractionRaising(r) ==
    /\ pc[r] = "pa_run"
    /\ Len(stack[r]) > 1
    /\ Top(r).fn = "extract" /\ Top(r).stage = "raised"
    /\ exc[r].kind \in ExtractorKinds

C27_NestedErrorStaysInside ==
    \A r \in Reqs :
        /\ \A i \in 1..Len(stack[r]) :
            (stack[r][i].fn = "find" /\ stack[r][i].stage = "raised") =>
                exc[r].kind \notin ExtractorKinds
        /\ (pc[r] = "pa_except" /\ exc[r].kind \in ExtractorKinds) =>
               ~(/\ ArchiveSizeOk(upload[r].size)
                 /\ Extractor(upload[r].name) # "none"
                 /\ CleanArchive(upload[r].name, upload[r].data))
        /\ (pc[r] = "paf_check" /\ denied = {}) =>
               \A w \in writes :
                   (w.req = r /\ w.level = 0 /\ PlainBelow(TempDir(r), w.path)
                      /\ Lower(Suffix(w.path[Len(w.path)]))
                             \in SUPPORTED_DOCUMENT_EXTENSIONS) =>
                          Count(supported[r], w.path) >= 1

C27_NestedErrorDropped ==
    \A r \in Reqs :
        (NestedExtractionRaising(r) /\ stack'[r] # stack[r]) =>
            /\ exc'[r] = NoExc
            /\ pc'[r] = "pa_run"
            /\ stack'[r] = Below(r)

\* C27: a SecurityValidationError or ArchiveExtractionError raised by the
\* extraction of a nested archive is dropped in the call of
\* find_supported_files that started the extraction, which goes on with
\* the rest of its directory: no call of find_supported_files raises
\* either kind, process_archive fails with either kind only on account of
\* the top-level archive, and the documents of the top-level archive are
\* returned.
C27_NestedErrorsNeverPropagate ==
    []C27_NestedErrorStaysInside /\ [][C27_NestedErrorDropped]_vars

\* process_archive has returned the top-level document although the nested
\* archive beside it raised SecurityValidationError after writing a member
C27_Witness ==
    \E r \in Reqs :
        /\ pc[r] = "paf_check"
        /\ upload[r].data.members = <<mDoc, mNestBad>>
        /\ \E w \in writes : w.req = r /\ w.level = 1 /\ w.arch = N("m", EXT_TAR)
        /\ supported[r] = <<Append(TempDir(r), N("a", EXT_TXT))>>

---------------------------------------------------------------------------
(* C28 *)

\* the format extract_archive reads from a name it hands to extract_tar: it
\* compares the lowered name with the suffixes, as is_archive_file does
DetectedGzipTar(name) ==
    \/ EndsWith(Lower(name), EXT_TAR_GZ)
    \/ EndsWith(Lower(name), EXT_TGZ)

DetectedPlainTar(name) == EndsWith(Lower(name), EXT_TAR)

\* C28: whenever extract_tar has been handed a file, it opens it in gzip
\* mode if the detector and the dispatcher read its name as .tar.gz or
\* .tgz (in any letter case) and in plain mode if they read it as .tar; so
\* an archive it has opened under a name read as .tar.gz or .tgz is gzip
\* data.
C28_TarModeAgreesWithDetection ==
    \A r \in Reqs : \A i \in 1..Len(stack[r]) :
        LET f == stack[r][i]
        IN  (f.fn = "extract" /\ f.stage \in {"open", "loop", "returned"}
             /\ Extractor(f.arch.name) = "tar") =>
                /\ DetectedGzipTar(f.arch.name) =>
                       /\ TarMode(f.arch.name) = "r:gz"
                       /\ f.stage # "open" => f.arch.data.fmt = "gz"
                /\ DetectedPlainTar(f.arch.name) =>
                       TarMode(f.arch.name) = "r"

---------------------------------------------------------------------------
(* C23, C24, C29 *)

\* the result files json.load takes
Parseable == {n \in ResultNames : result_files[n].kind = "json"}

\* the entries of a list that add_result_metadata was called with
AddedIn(metadata) ==
    SelectSeq(metadata, LAMBDA e : \E i \in DOMAIN added : added[i] = e)

\* the entries of a list that name a given file
EntriesOf(metadata, name) == {i \in DOMAIN metadata : metadata[i].filename = name}

OneEntryPerFile(metadata) ==
    \A n \in ResultNames :
        Cardinality(EntriesOf(metadata, n)) = (IF n \in Parseable THEN 1 ELSE 0)

\* C23: whenever load_metadata returns to /api/results, after any number of
\* saved analyses and from any state the cache was in before them, the list
\* has exactly one entry for every result file and none for any other name,
\* and the entries add_result_metadata was called with are in it in call
\* order.
C23_OneEntryPerSavedResult ==
    \A r \in Reqs :
        MetaAt(r, "list", "loaded") =>
            /\ OneEntryPerFile(meta[r].metadata)
            /\ AddedIn(meta[r].metadata) = added

\* C24: whenever load_metadata returns after finding a _metadata.json that
\* json.load refused, the list it returns has exactly one entry for every
\* result file json.load takes, holding that file's title and timestamp,
\* no entry for _metadata.json or for a file json.load refuses, and
\* _metadata.json holds that list.
C24_UnparseableCacheRebuilt ==
    \A r \in Reqs :
        (meta[r].pc = "loaded" /\ meta[r].found = "unparseable") =>
            /\ OneEntryPerFile(meta[r].metadata)
            /\ \A i \in DOMAIN meta[r].metadata :
                   /\ meta[r].metadata[i].filename # METADATA_FILE
                   /\ <<meta[r].metadata[i]>> = ScannedEntry(meta[r].metadata[i].filename)
            /\ metadata_file = CacheOf(meta[r].metadata)

\* load_metadata has returned one entry, for the one result file json.load
\* takes, after finding an unparseable cache beside a result file json.load
\* refuses
C24_Witness ==
    \E r \in Reqs :
        /\ meta[r].pc = "loaded"
        /\ meta[r].found = "unparseable"
        /\ Cardinality(Parseable) = 1
        /\ \E n \in ResultNames : result_files[n].kind = "unparseable"
        /\ Len(meta[r].metadata) = 1
        /\ metadata_file.kind = "json"

\* both clients have had their analysis saved and their responses
BothSaved ==
    /\ Len(added) = 2
    /\ \A r \in Reqs : MetaAt(r, "none", "idle") /\ meta[r].left = 0

\* C29: when two /analyze requests handled at the same time have both
\* saved their result and returned, _metadata.json holds the entry of each:
\* no interleaving of the two load-append-save sequences loses an entry.
C29_NoLostUpdate ==
    BothSaved =>
        /\ metadata_file.kind = "json"
        /\ \A i \in DOMAIN added :
               \E k \in DOMAIN metadata_file.entries :
                   metadata_file.entries[k] = added[i]

---------------------------------------------------------------------------
(* C30 *)

\* C30: whenever no /chat request is being handled, whatever requests have
\* been answered before, with a reply or with the error of a failed
\* provider call, the history kept for every session has at most 20
\* messages.
C30_HistoryBounded ==
    chat.pc = "idle" =>
        \A s \in DOMAIN conversations : Len(conversations[s]) <= MAX_CONVERSATION

===========================================================================
